---- MODULE Spec2Model ----
(***************************************************************************)
(* Quiz attempt lifecycle and scoring of the course-enrollment application *)
(* (app/models/quiz.py, app/models/course.py, app/models/enrollment.py,    *)
(* app/main/routes.py).                                                    *)
(*                                                                         *)
(* Reading of the source.  The column and relationship declarations are    *)
(* read as the schema they declare (db.Intger as Integer, db.realtionship  *)
(* as relationship, db.Mode as Model).  Statements inside functions are    *)
(* modelled as written: a name that does not exist (self.answer,           *)
(* quiz.is_ramdomized) raises AttributeError where it is evaluated, and    *)
(* json.dump called with one argument raises TypeError.                    *)
(*                                                                         *)
(* Absent values (None / NULL) are the empty sequence <<>>, present values *)
(* v are <<v>>.  Text is a sequence of one-character strings.              *)
(***************************************************************************)
EXTENDS Integers, Sequences, FiniteSets, TLC

VARIABLES
    courses,      \* table courses: the ids of the course rows that exist
    enrollments,  \* table enrollments: sequence of rows
    attempts,     \* table quiz_attempts: sequence of rows, id = index
    questions,    \* table questions: question id -> row
    pending,      \* per request slot: the call in progress, its position and its argument
                  \* (the take_quiz call between its check and its insert)
    issued,       \* history: per attempt row, what held when the call that created it was made
    resp,         \* the last finished call on a quiz or an attempt: what it was, the
                  \* attempt it was on, whether that attempt was completed, its outcome
                  \* and the value it returned
    now           \* logical datetime.utcnow(), ticks when a completion time is written

vars == <<courses, enrollments, attempts, questions, pending, issued, resp, now>>

-----------------------------------------------------------------------------
(* Bounds of the model *)

MaxRows == 2          \* attempt rows

Procs == {"r1", "r2"} \* concurrent requests
Edited == {1}         \* the questions authoring edits
PointChoices == {1, 2} \* the point values an authoring edit sets

None == <<>>
Some(v) == <<v>>

-----------------------------------------------------------------------------
(* Fixed rows: users, courses, quizzes *)

Users == {1, 2, 3, 4}
Actors == {1, 2, 3}   \* the users who send quiz requests
Students == {1}       \* the users who send enrollment requests
Callers == {1, 2}     \* the users who call a method of an attempt
Courses == {1, 2}
Quizzes == {1, 2}
QIds == {1, 2}

\* User.role
role(u) == CASE u = 1 -> "student" [] u \in {2, 3} -> "teacher" [] OTHER -> "admin"

is_teacher(u) == role(u) = "teacher"

is_admin(u) == role(u) = "admin"

\* Course.instructor_id, Course.is_published
course_instructor_id(c) == IF c = 1 THEN 2 ELSE 3

course_is_published(c) == c = 1

\* Quiz.course_id, Quiz.max_attemtps, Quiz.passing_score, Quiz.is_published
quiz_course_id(q) == 1

quiz_max_attemtps(q) == IF q = 1 THEN 1 ELSE 2

quiz_passing_score(q) == 70

quiz_is_published(q) == q = 1

-----------------------------------------------------------------------------
(* Text: str.strip().lower() *)

lower_char(c) == CASE c = "A" -> "a" [] c = "B" -> "b" [] OTHER -> c

lower(s) == [i \in 1..Len(s) |-> lower_char(s[i])]

RECURSIVE lstrip(_)
lstrip(s) == IF s # <<>> /\ Head(s) = " " THEN lstrip(Tail(s)) ELSE s

RECURSIVE rstrip(_)
rstrip(s) == IF s # <<>> /\ s[Len(s)] = " " THEN rstrip(SubSeq(s, 1, Len(s) - 1)) ELSE s

strip(s) == rstrip(lstrip(s))

\* str(question.id)
str_id(i) == CASE i = 1 -> "1" [] i = 2 -> "2" [] i = 3 -> "3" [] OTHER -> "?"

-----------------------------------------------------------------------------
(* Question *)

\* check_answer comparing a short answer without lower()
check_answer_exact_short(question, user_answer) ==
    IF question.question_type = "multiple_choice"
    THEN lower(strip(user_answer)) = lower(strip(question.correct_answer))
    ELSE IF question.question_type = "true_false"
    THEN lower(strip(user_answer)) = lower(strip(question.correct_answer))
    ELSE IF question.question_type = "short_answer"
    THEN strip(user_answer) = strip(question.correct_answer)
    ELSE FALSE

\* Question.check_answer
check_answer(question, user_answer) ==
    IF question.question_type = "multiple_choice"
    THEN lower(strip(user_answer)) = lower(strip(question.correct_answer))
    ELSE IF question.question_type = "true_false"
    THEN lower(strip(user_answer)) = lower(strip(question.correct_answer))
    ELSE IF question.question_type = "short_answer"
    THEN lower(strip(user_answer)) = lower(strip(question.correct_answer))
    ELSE FALSE

\* quiz.questions: the ids of the question rows of a quiz
quiz_questions(qs, quiz) == {i \in DOMAIN qs : qs[i].quiz_id = quiz}

RECURSIVE SumPoints(_, _)
SumPoints(qs, ids) ==
    IF ids = {} THEN 0
    ELSE LET i == CHOOSE x \in ids : TRUE
         IN  qs[i].points + SumPoints(qs, ids \ {i})

\* Quiz.get_total_points
get_total_points(qs, quiz) == SumPoints(qs, quiz_questions(qs, quiz))

\* The options column: NULL, the empty text, text json.loads rejects, or the
\* JSON text of a value.  A JSON value is held by its type and, for a list,
\* the JSON texts of its items
NullOptions == [kind |-> "null", json |-> [t |-> "null", items |-> <<>>]]
EmptyOptions == [kind |-> "empty", json |-> [t |-> "null", items |-> <<>>]]
BadOptions == [kind |-> "bad", json |-> [t |-> "null", items |-> <<>>]]
JsonOptions(v) == [kind |-> "json", json |-> v]

JsonList(items) == [t |-> "list", items |-> items]
JsonScalar(t) == [t |-> t, items |-> <<>>]

\* Question.get_options_list: json.loads of a non-empty text, [] when it raises
\* JSONDecodeError and when the text is absent or empty
get_options_list(question) ==
    IF question.options.kind \in {"null", "empty"}
    THEN [raised |-> "", value |-> JsonList(<<>>)]
    ELSE IF question.options.kind = "bad"
    THEN [raised |-> "", value |-> JsonList(<<>>)]
    ELSE [raised |-> "", value |-> question.options.json]

\* Question.to_dict with include_correct_answer set on every call
to_dict_with_answer(question, i, include_correct_answer) ==
    [id |-> i, quiz_id |-> question.quiz_id, question_type |-> question.question_type,
     options |-> get_options_list(question).value,
     points |-> question.points, order_index |-> i]
        @@ ("correct_answer" :> question.correct_answer)

\* Question.to_dict, for the columns the model holds; order_index is the id
to_dict(question, i, include_correct_answer) ==
    LET data == [id |-> i, quiz_id |-> question.quiz_id,
                 question_type |-> question.question_type,
                 options |-> get_options_list(question).value,
                 points |-> question.points, order_index |-> i]
    IN  IF include_correct_answer
        THEN data @@ ("correct_answer" :> question.correct_answer)
        ELSE data

\* quiz.questions.order_by(Question.order_index): the ids in ascending order
RECURSIVE order_by_index(_)
order_by_index(ids) ==
    IF ids = {} THEN <<>>
    ELSE LET i == CHOOSE x \in ids : \A y \in ids : x <= y
         IN  <<i>> \o order_by_index(ids \ {i})

\* Quiz.to_dict(include_questions = True)['questions']
questions_to_dict(qs, quiz) ==
    LET ordered == order_by_index(quiz_questions(qs, quiz))
    IN  [k \in 1..Len(ordered) |-> to_dict(qs[ordered[k]], ordered[k], FALSE)]

-----------------------------------------------------------------------------
(* QuizAttempt *)

\* The answers column: NULL, the empty text, text json.loads rejects, or the
\* JSON text of an object, held as its set of <<key, value>> pairs.
NullText == [kind |-> "null", dict |-> {}]
EmptyText == [kind |-> "empty", dict |-> {}]
BadText == [kind |-> "bad", dict |-> {}]
JsonText(d) == [kind |-> "json", dict |-> d]

\* variant of NewAttempt: the status column defaulting to 'completed'
NewAttempt_completed(u, q) ==
    [user_id |-> u, quiz_id |-> q, status |-> "completed",
     score |-> None, total_points |-> None, earned_points |-> None,
     answers |-> NullText, completed_at |-> None]

\* QuizAttempt(user_id = ..., quiz_id = ...) with the column defaults (started_at
\* and time_spent_minutes, which no operation reads, are left out)
NewAttempt(u, q) ==
    [user_id |-> u, quiz_id |-> q, status |-> "in_progress",
     score |-> None, total_points |-> None, earned_points |-> None,
     answers |-> NullText, completed_at |-> None]

\* dict.get(key): None when the key is absent
dict_get(d, key) ==
    IF \E e \in d : e[1] = key
    THEN Some((CHOOSE e \in d : e[1] = key)[2])
    ELSE None

\* QuizAttempt.get_answers_dict: the truthy branch evaluates self.answer, which
\* no QuizAttempt has, before json.loads is entered
get_answers_dict(attempt) ==
    IF attempt.answers.kind \in {"null", "empty"}
    THEN [raised |-> "", value |-> {}]
    ELSE [raised |-> "AttributeError", value |-> {}]

\* the loop of calculate_score: <<total_points, earned_points>>
RECURSIVE score_loop(_, _, _)
score_loop(qs, ids, answers_dict) ==
    IF ids = {} THEN <<0, 0>>
    ELSE LET i == CHOOSE x \in ids : TRUE
             rest == score_loop(qs, ids \ {i}, answers_dict)
             user_answer == dict_get(answers_dict, str_id(i))
             correct == user_answer # None /\ check_answer(qs[i], user_answer[1])
         IN  <<rest[1] + qs[i].points,
               rest[2] + (IF correct THEN qs[i].points ELSE 0)>>

\* earned_points / total_points * 100, kept as the exact fraction num / den
Percentage(earned, total) ==
    IF total > 0 THEN [num |-> earned * 100, den |-> total] ELSE [num |-> 0, den |-> 1]

\* calculate_score without its status check (lines 179-180 dropped)
calculate_score_unguarded(attempt, qs) ==
    LET answers == get_answers_dict(attempt)
        sums == score_loop(qs, quiz_questions(qs, attempt.quiz_id), answers.value)
    IN  IF answers.raised # ""
        THEN [raised |-> answers.raised, scored |-> FALSE, attempt |-> attempt]
        ELSE [raised |-> "", scored |-> TRUE,
              attempt |-> [attempt EXCEPT !.total_points = Some(sums[1]),
                                          !.earned_points = Some(sums[2]),
                                          !.score = Some(Percentage(sums[2], sums[1]))]]

\* calculate_score reading the questions of the quiz whose id is the attempt's
\* user_id (self.user_id for self.quiz_id)
calculate_score_by_user(attempt, qs) ==
    IF attempt.status # "completed"
    THEN [raised |-> "", scored |-> FALSE, attempt |-> attempt]
    ELSE LET answers == get_answers_dict(attempt)
             sums == score_loop(qs, quiz_questions(qs, attempt.user_id), answers.value)
         IN  IF answers.raised # ""
             THEN [raised |-> answers.raised, scored |-> FALSE, attempt |-> attempt]
             ELSE [raised |-> "", scored |-> TRUE,
                   attempt |-> [attempt EXCEPT !.total_points = Some(sums[1]),
                                               !.earned_points = Some(sums[2]),
                                               !.score = Some(Percentage(sums[2], sums[1]))]]

\* QuizAttempt.calculate_score: the attempt after the call and what it raised
calculate_score(attempt, qs) ==
    IF attempt.status # "completed"
    THEN [raised |-> "", scored |-> FALSE, attempt |-> attempt]
    ELSE LET answers == get_answers_dict(attempt)
             sums == score_loop(qs, quiz_questions(qs, attempt.quiz_id), answers.value)
         IN  IF answers.raised # ""
             THEN [raised |-> answers.raised, scored |-> FALSE, attempt |-> attempt]
             ELSE [raised |-> "", scored |-> TRUE,
                   attempt |-> [attempt EXCEPT !.total_points = Some(sums[1]),
                                               !.earned_points = Some(sums[2]),
                                               !.score = Some(Percentage(sums[2], sums[1]))]]

\* self.attempts.filter_by(user_id = user.id).count()
RECURSIVE count_rows(_, _, _)
count_rows(rows, u, quiz) ==
    IF rows = <<>> THEN 0
    ELSE (IF Head(rows).quiz_id = quiz /\ Head(rows).user_id = u THEN 1 ELSE 0)
         + count_rows(Tail(rows), u, quiz)

\* can_user_attempt without filter_by(user_id = user.id)
RECURSIVE count_quiz_rows(_, _)
count_quiz_rows(rows, quiz) ==
    IF rows = <<>> THEN 0
    ELSE (IF Head(rows).quiz_id = quiz THEN 1 ELSE 0) + count_quiz_rows(Tail(rows), quiz)

can_user_attempt_any_user(rows, quiz, u) ==
    count_quiz_rows(rows, quiz) < quiz_max_attemtps(quiz)

\* Quiz.can_user_attempt
can_user_attempt(rows, quiz, u) == count_rows(rows, u, quiz) < quiz_max_attemtps(quiz)

\* comparison of two scores held as fractions with positive denominators
score_le(x, y) == x.num * y.den <= y.num * x.den

\* variant of get_user_best_score: no best score while an attempt of the user
\* on the quiz has no score
get_user_best_score_all_scored(rows, quiz, u) ==
    LET user_attempts == {a \in 1..Len(rows) :
                             /\ rows[a].quiz_id = quiz
                             /\ rows[a].user_id = u}
        scores == {rows[a].score[1] : a \in {b \in user_attempts : rows[b].score # None}}
    IN  IF scores # {} /\ \A a \in user_attempts : rows[a].score # None
        THEN Some(CHOOSE s \in scores : \A t \in scores : score_le(t, s))
        ELSE None

\* get_user_best_score without filter_by(user_id = user.id)
get_quiz_best_score(rows, quiz, u) ==
    LET user_attempts == {a \in 1..Len(rows) :
                             rows[a].quiz_id = quiz /\ rows[a].status = "completed"}
        scores == {rows[a].score[1] : a \in {b \in user_attempts : rows[b].score # None}}
    IN  IF scores # {}
        THEN Some(CHOOSE s \in scores : \A t \in scores : score_le(t, s))
        ELSE None

\* Quiz.get_user_best_score
get_user_best_score(rows, quiz, u) ==
    LET user_attempts == {a \in 1..Len(rows) :
                             /\ rows[a].quiz_id = quiz
                             /\ rows[a].user_id = u
                             /\ rows[a].status = "completed"}
        scores == {rows[a].score[1] : a \in {b \in user_attempts : rows[b].score # None}}
    IN  IF scores # {}
        THEN Some(CHOOSE s \in scores : \A t \in scores : score_le(t, s))
        ELSE None

-----------------------------------------------------------------------------
(* Course *)

\* Course.is_enrolled_by_user
is_enrolled_by_user(rows, c, u) ==
    \E i \in 1..Len(rows) :
        rows[i].user_id = u /\ rows[i].course_id = c /\ rows[i].is_active

\* Course.can_be_accessed_by_user
can_be_accessed_by_user(rows, c, u) ==
    IF is_teacher(u) \/ is_admin(u) THEN TRUE ELSE is_enrolled_by_user(rows, c, u)

-----------------------------------------------------------------------------
(* State *)

Idle == [pc |-> "idle", user |-> 0, quiz |-> 0, permitted |-> FALSE, arg |-> None]

NoResp == [op |-> "none", code |-> "none", attempt |-> 0, completed |-> FALSE, value |-> None]

Question(quiz, type, answer, points) ==
    [quiz_id |-> quiz, question_type |-> type, correct_answer |-> answer, points |-> points,
     options |-> NullOptions]

\* answer maps a client submits
AnswerMaps ==
    { {}, {<<"1", <<" ", "A">>>>, <<"2", <<"a">>>>} }

\* the permission the specification states for issuing an attempt: actively
\* enrolled, or teacher of that course, or admin
Permitted(rows, c, u) ==
    \/ is_enrolled_by_user(rows, c, u)
    \/ is_admin(u)
    \/ (is_teacher(u) /\ course_instructor_id(c) = u)

Init ==
    /\ courses = Courses
    /\ enrollments = <<>>
    /\ attempts = <<>>
    /\ questions = (1 :> Question(1, "multiple_choice", <<"a">>, 1)
                    @@ 2 :> Question(1, "short_answer", <<"b">>, 2))
    /\ pending = [p \in Procs |-> Idle]
    /\ issued = <<>>
    /\ resp = NoResp
    /\ now = 1

InFlight == Cardinality({p \in Procs : pending[p].pc = "create"})

-----------------------------------------------------------------------------
(* enroll_course *)

EnrollCourse(u, c) ==
    LET existing == {i \in 1..Len(enrollments) :
                        enrollments[i].user_id = u /\ enrollments[i].course_id = c}
        first == CHOOSE i \in existing : \A j \in existing : i <= j
    IN  /\ UNCHANGED <<courses, attempts, questions, pending, issued, resp, now>>
        /\ IF c \notin courses \/ ~course_is_published(c)
           THEN UNCHANGED enrollments
           ELSE IF existing # {}
           THEN IF enrollments[first].is_active
                THEN UNCHANGED enrollments
                ELSE enrollments' = [enrollments EXCEPT ![first].is_active = TRUE,
                                                        ![first].status = "active"]
           ELSE enrollments' = Append(enrollments,
                    [user_id |-> u, course_id |-> c, is_active |-> FALSE,
                     status |-> "active"])

-----------------------------------------------------------------------------
(* take_quiz: the access check and the attempt-limit check, then, in a later
   step of the same request, the insert and the rest of the handler *)

TakeQuizCheck(p, u, quiz) ==
    LET course == quiz_course_id(quiz)
    IN  /\ pending[p].pc = "idle"
        /\ UNCHANGED <<courses, enrollments, attempts, questions, issued, now>>
        /\ IF course \notin courses
           THEN /\ resp' = [op |-> "take_quiz", code |-> "NotFound", attempt |-> 0,
                            completed |-> FALSE, value |-> None]
                /\ UNCHANGED pending
           ELSE IF ~can_be_accessed_by_user(enrollments, course, u)
           THEN /\ resp' = [op |-> "take_quiz", code |-> "NotPermitted", attempt |-> 0,
                            completed |-> FALSE, value |-> None]
                /\ UNCHANGED pending
           ELSE IF ~can_user_attempt(attempts, quiz, u)
           THEN /\ resp' = [op |-> "take_quiz", code |-> "AttemptLimitReached", attempt |-> 0,
                            completed |-> FALSE, value |-> None]
                /\ UNCHANGED pending
           ELSE /\ Len(attempts) + InFlight < MaxRows
                /\ pending' = [pending EXCEPT ![p] =
                        [pc |-> "create", user |-> u, quiz |-> quiz,
                         permitted |-> Permitted(enrollments, course, u), arg |-> None]]
                /\ UNCHANGED resp

\* take_quiz after the commit: the questions are read in order_index order,
\* then quiz.is_ramdomized is evaluated, which no Quiz has, so random.sample and
\* render_template are not reached and no question list is returned
take_quiz_render(qs, quiz) ==
    LET ordered == order_by_index(quiz_questions(qs, quiz))
    IN  [raised |-> "AttributeError", questions |-> None]

\* db.session.add(attempt); db.session.commit(); then the rest of the handler:
\* the request ends in the 500 handler with the row committed.  When the quiz
\* row was deleted since the check, the insert fails where the database
\* enforces the foreign key (IntegrityError) and is committed where it does not
TakeQuizCreate(p) ==
    LET r == take_quiz_render(questions, pending[p].quiz)
    IN  /\ pending[p].pc = "create"
        /\ pending' = [pending EXCEPT ![p] = Idle]
        /\ UNCHANGED <<courses, enrollments, questions, now>>
        /\ \E enforced \in BOOLEAN :
              IF enforced /\ quiz_course_id(pending[p].quiz) \notin courses
              THEN /\ resp' = [op |-> "take_quiz", code |-> "IntegrityError",
                               attempt |-> 0, completed |-> FALSE, value |-> None]
                   /\ UNCHANGED <<attempts, issued>>
              ELSE /\ attempts' = Append(attempts,
                                         NewAttempt(pending[p].user, pending[p].quiz))
                   /\ issued' = Append(issued,
                                       [permitted |-> pending[p].permitted,
                                        published |-> quiz_is_published(pending[p].quiz)])
                   /\ resp' = [op |-> "take_quiz",
                               code |-> (IF r.raised # "" THEN r.raised ELSE "ok"),
                               attempt |-> Len(attempts) + 1, completed |-> FALSE,
                               value |-> r.questions]

-----------------------------------------------------------------------------
(* quiz_detail, and the best score it asks the quiz for *)

\* Quiz.query.get_or_404() is called without the id: TypeError, before the
\* access check and before can_user_attempt and get_user_best_score are called
QuizDetail(u, quiz) ==
    /\ resp' = [op |-> "quiz_detail", code |-> "TypeError", attempt |-> 0,
                completed |-> FALSE, value |-> None]
    /\ UNCHANGED <<courses, enrollments, attempts, questions, pending, issued, now>>

\* quiz.get_user_best_score(user)
GetUserBestScore(u, quiz) ==
    /\ resp' = [op |-> "best_score", code |-> "ok", attempt |-> 0, completed |-> FALSE,
                value |-> Some([user |-> u, quiz |-> quiz,
                                best |-> get_user_best_score(attempts, quiz, u)])]
    /\ UNCHANGED <<courses, enrollments, attempts, questions, pending, issued, now>>

-----------------------------------------------------------------------------
(* Operations on one attempt *)

\* QuizAttempt.set_answers_dict: json.dump(answers_dict) lacks its file argument
set_answers_dict(attempt, answers_dict) ==
    [raised |-> "TypeError", attempt |-> attempt]

\* attempt.set_answers_dict(answers_dict) in a request of user u: nothing in
\* the method or around it reads the user or the attempt's status
SubmitAnswers(u, a, answers_dict) ==
    LET r == set_answers_dict(attempts[a], answers_dict)
    IN  /\ attempts' = [attempts EXCEPT ![a] = r.attempt]
        /\ resp' = [op |-> "submit", code |-> (IF r.raised # "" THEN r.raised ELSE "ok"),
                    attempt |-> a, completed |-> attempts[a].status = "completed",
                    value |-> None]
        /\ UNCHANGED <<courses, enrollments, questions, pending, issued, now>>

\* The transition in_progress -> completed: status and completed_at are written,
\* then calculate_score runs on the attempt
FinalizeAttempt(a) ==
    LET marked == [attempts[a] EXCEPT !.status = "completed", !.completed_at = Some(now)]
        r == calculate_score(marked, questions)
    IN  /\ attempts[a].status = "in_progress"
        /\ quiz_course_id(attempts[a].quiz_id) \in courses
        /\ attempts' = [attempts EXCEPT ![a] = r.attempt]
        /\ now' = now + 1
        /\ resp' = [op |-> "finalize", code |-> (IF r.raised # "" THEN r.raised ELSE "ok"),
                    attempt |-> a, completed |-> FALSE, value |-> None]
        /\ UNCHANGED <<courses, enrollments, questions, pending, issued>>

\* variant of CalculateScore: the call rescoring every attempt of the quiz
CalculateScore_whole_quiz(a) ==
    LET r == calculate_score(attempts[a], questions)
        rescored(b) == IF attempts[b].quiz_id = attempts[a].quiz_id
                       THEN calculate_score(attempts[b], questions).attempt
                       ELSE attempts[b]
    IN  /\ attempts' = [b \in 1..Len(attempts) |-> rescored(b)]
        /\ resp' = [op |-> "calculate_score",
                    code |-> (IF r.raised # "" THEN r.raised
                              ELSE IF r.scored THEN "ok" ELSE "none"),
                    attempt |-> a, completed |-> attempts[a].status = "completed",
                    value |-> None]
        /\ UNCHANGED <<courses, enrollments, questions, pending, issued, now>>

\* calculate_score called on an attempt, whatever its status; the method
\* returns None on every path
CalculateScore(a) ==
    LET r == calculate_score(attempts[a], questions)
    IN  /\ attempts' = [attempts EXCEPT ![a] = r.attempt]
        /\ resp' = [op |-> "calculate_score",
                    code |-> (IF r.raised # "" THEN r.raised
                              ELSE IF r.scored THEN "ok" ELSE "none"),
                    attempt |-> a, completed |-> attempts[a].status = "completed",
                    value |-> None]
        /\ UNCHANGED <<courses, enrollments, questions, pending, issued, now>>

\* question.get_options_list()
GetOptionsList(i) ==
    LET r == get_options_list(questions[i])
    IN  /\ i \in DOMAIN questions
        /\ resp' = [op |-> "get_options_list",
                    code |-> (IF r.raised # "" THEN r.raised ELSE "ok"),
                    attempt |-> 0, completed |-> FALSE, value |-> Some(r.value)]
        /\ UNCHANGED <<courses, enrollments, attempts, questions, pending, issued, now>>

\* question.check_answer(user_answer), the argument being held by the call
CheckAnswer(p, i) ==
    /\ pending[p].pc = "check_answer"
    /\ i \in DOMAIN questions
    /\ resp' = [op |-> "check_answer", code |-> "ok", attempt |-> 0, completed |-> FALSE,
                value |-> Some(check_answer(questions[i], pending[p].arg[1]))]
    /\ pending' = [pending EXCEPT ![p].pc = "checked"]
    /\ UNCHANGED <<courses, enrollments, attempts, questions, issued, now>>

-----------------------------------------------------------------------------
(* delete_course, called by a teacher (role_required lets teachers and admins
   in) *)

Deleters == {2, 3}    \* the teachers who send delete requests
Deletable == {1}      \* the courses they ask to delete

\* db.session.delete(course) with the cascades of Course.enrollments,
\* Course.quizzes, Quiz.questions and Quiz.attempts (all, delete-orphan).
\* get_or_404 is inside the try block: its NotFound is caught and answered 500
DeleteCourse(u, c) ==
    LET keep_enrollment(e) == e.course_id # c
        keep_attempt(t) == quiz_course_id(t.quiz_id) # c
        reply(code) == [op |-> "delete_course", code |-> code, attempt |-> 0,
                        completed |-> FALSE, value |-> None]
    IN  /\ UNCHANGED <<pending, issued, now>>
        /\ IF c \notin courses
           THEN /\ resp' = reply("500")
                /\ UNCHANGED <<courses, enrollments, attempts, questions>>
           ELSE IF ~is_admin(u) /\ course_instructor_id(c) # u
           THEN /\ resp' = reply("403")
                /\ UNCHANGED <<courses, enrollments, attempts, questions>>
           ELSE IF \E i \in 1..Len(enrollments) :
                      enrollments[i].course_id = c /\ enrollments[i].is_active
           THEN /\ resp' = reply("400")
                /\ UNCHANGED <<courses, enrollments, attempts, questions>>
           ELSE /\ resp' = reply("ok")
                /\ courses' = courses \ {c}
                /\ enrollments' = SelectSeq(enrollments, keep_enrollment)
                /\ attempts' = SelectSeq(attempts, keep_attempt)
                /\ questions' = [i \in {j \in DOMAIN questions :
                                            quiz_course_id(questions[j].quiz_id) # c}
                                     |-> questions[i]]

-----------------------------------------------------------------------------
(* Authoring of questions, by the course-authoring collaborator *)

AuthorSetPoints(i, pts) ==
    /\ i \in DOMAIN questions
    /\ questions[i].points # pts
    /\ questions' = [questions EXCEPT ![i].points = pts]
    /\ UNCHANGED <<courses, enrollments, attempts, pending, issued, resp, now>>

-----------------------------------------------------------------------------

Next ==
    \/ \E u \in Students, c \in Courses : EnrollCourse(u, c)
    \/ \E p \in Procs, u \in Actors, quiz \in Quizzes : TakeQuizCheck(p, u, quiz)
    \/ \E p \in Procs : TakeQuizCreate(p)
    \/ \E u \in Callers, a \in 1..Len(attempts), m \in AnswerMaps : SubmitAnswers(u, a, m)
    \/ \E a \in 1..Len(attempts) : FinalizeAttempt(a)
    \/ \E a \in 1..Len(attempts) : CalculateScore(a)
    \/ \E i \in Edited, pts \in PointChoices : AuthorSetPoints(i, pts)
    \/ \E u \in Deleters, c \in Deletable : DeleteCourse(u, c)

Spec == Init /\ [][Next]_vars

-----------------------------------------------------------------------------
(* calculate_score as a function of its inputs: the question rows of the quiz
   and the stored answers of an attempt that has just been marked completed
   (or not), drawn from bounded sets; a second attempt, of another user and
   completed at another time, is scored on the same question rows *)

ScorePoints == {-1, 0, 1, 3}

ScoreTypes == {"multiple_choice", "essay"}

ScoreMaps ==
    { {<<"1", <<"a">>>>},
      {<<"2", <<"a">>>>},
      {<<"1", <<" ", "A">>>>, <<"2", <<"b">>>>},
      {<<"2", <<"a">>>>, <<"3", <<"a">>>>} }

StoredTexts == {NullText, EmptyText, BadText} \cup {JsonText(d) : d \in ScoreMaps}

ScoreRows ==
    {Question(quiz, type, <<"a">>, pts) :
        quiz \in Quizzes, type \in ScoreTypes, pts \in ScorePoints}

QuestionTables == UNION {[ids -> ScoreRows] : ids \in SUBSET QIds}

ScoreInit ==
    /\ courses = Courses
    /\ enrollments = <<[user_id |-> 1, course_id |-> 1, is_active |-> TRUE,
                        status |-> "active"]>>
    /\ questions \in QuestionTables
    /\ \E st \in {"in_progress", "completed"}, text \in StoredTexts, other \in StoredTexts :
          attempts = <<[NewAttempt(1, 1) EXCEPT
                            !.status = st, !.answers = text,
                            !.completed_at = IF st = "completed" THEN Some(1) ELSE None],
                       [NewAttempt(2, 1) EXCEPT
                            !.status = "completed", !.answers = other,
                            !.completed_at = Some(2)]>>
    /\ pending = [p \in Procs |-> Idle]
    /\ issued = <<[permitted |-> TRUE, published |-> TRUE],
                  [permitted |-> TRUE, published |-> TRUE]>>
    /\ resp = NoResp
    /\ now = 3

ScoreNext == \E a \in 1..Len(attempts) : CalculateScore(a)

ScoreSpec == ScoreInit /\ [][ScoreNext]_vars

-----------------------------------------------------------------------------
(* get_user_best_score as a function of the attempts table: tables of BestLen
   rows of two users on two quizzes, in_progress rows without a score and
   completed rows with one *)

BestLen == 3

BestUsers == {1, 2}

BestScores == {Percentage(0, 2), Percentage(1, 2), Percentage(1, 3)}

BestRows ==
    {NewAttempt(u, quiz) : u \in BestUsers, quiz \in Quizzes}
    \cup {[NewAttempt(u, quiz) EXCEPT !.status = "completed", !.score = Some(sc),
                                      !.total_points = Some(sc.den),
                                      !.earned_points = Some(sc.num \div 100),
                                      !.completed_at = Some(1)] :
             u \in BestUsers, quiz \in Quizzes, sc \in BestScores}

BestInit ==
    /\ courses = Courses
    /\ enrollments = <<>>
    /\ attempts \in [1..BestLen -> BestRows]
    /\ questions = << >>
    /\ pending = [p \in Procs |-> Idle]
    /\ issued = [a \in 1..BestLen |-> [permitted |-> TRUE, published |-> TRUE]]
    /\ resp = NoResp
    /\ now = 2

BestNext ==
    \/ \E u \in BestUsers, quiz \in Quizzes : GetUserBestScore(u, quiz)
    \/ \E u \in BestUsers, quiz \in Quizzes : QuizDetail(u, quiz)

BestSpec == BestInit /\ [][BestNext]_vars

-----------------------------------------------------------------------------
(* check_answer as a function of the question and the submitted answer: one
   question of any type, its correct answer and the answer drawn from texts
   of letters in both cases and spaces *)

CheckLen == 3

CheckChars == {"a", "A", "b", " "}

CheckTypes == {"multiple_choice", "true_false", "short_answer", "essay"}

CheckCorrect == {<<"a">>, <<"A", " ">>, <<" ", "b">>, <<"a", "b">>, <<>>}

CheckTexts == UNION {[1..n -> CheckChars] : n \in 0..CheckLen}

CheckInit ==
    /\ courses = Courses
    /\ enrollments = <<>>
    /\ attempts = <<>>
    /\ \E type \in CheckTypes, correct \in CheckCorrect :
          questions = (1 :> Question(1, type, correct, 1))
    /\ \E answer \in CheckTexts :
          pending = [p \in Procs |->
                        IF p = "r1" THEN [Idle EXCEPT !.pc = "check_answer",
                                                      !.arg = Some(answer)]
                        ELSE Idle]
    /\ issued = <<>>
    /\ resp = NoResp
    /\ now = 1

CheckNext == \E p \in Procs, i \in QIds : CheckAnswer(p, i)

CheckSpec == CheckInit /\ [][CheckNext]_vars

-----------------------------------------------------------------------------
(* get_options_list as a function of the stored options text: one question
   whose options column is absent, empty, unparsable, or the JSON text of a
   list of up to OptLen items or of a value that is not a list *)

OptLen == 3

\* JSON texts of list items: two strings, a number, null
OptItems == {"\"a\"", "\"b\"", "1", "null"}

OptScalars == {"str", "num", "null", "object"}

OptionTexts ==
    {NullOptions, EmptyOptions, BadOptions}
    \cup {JsonOptions(JsonScalar(t)) : t \in OptScalars}
    \cup {JsonOptions(JsonList(items)) :
             items \in UNION {[1..n -> OptItems] : n \in 0..OptLen}}

OptionsInit ==
    /\ courses = Courses
    /\ enrollments = <<>>
    /\ attempts = <<>>
    /\ \E text \in OptionTexts :
          questions = (1 :> [Question(1, "multiple_choice", <<"a">>, 1)
                                EXCEPT !.options = text])
    /\ pending = [p \in Procs |-> Idle]
    /\ issued = <<>>
    /\ resp = NoResp
    /\ now = 1

OptionsNext == \E i \in QIds : GetOptionsList(i)

OptionsSpec == OptionsInit /\ [][OptionsNext]_vars

-----------------------------------------------------------------------------
(* The two enroll handlers, enroll_course (route "main") and enroll_in_course
   (route "api"), as two steps of a request: the reads up to the branch taken,
   then the write and its commit. Requests of the same user on the same course
   interleave between the two steps. *)

EnrollUsers == {1, 2}

Routes == {"main", "api"}

EnrollRows(rows, u, c) ==
    {i \in 1..Len(rows) : rows[i].user_id = u /\ rows[i].course_id = c}

\* variant of insert_enrollment: the table without its unique constraint
insert_enrollment_unconstrained(rows, u, c) ==
    [raised |-> "",
     rows |-> Append(rows, [user_id |-> u, course_id |-> c, is_active |-> FALSE,
                            status |-> "active"])]

\* db.session.add(Enrollment(user_id, course_id)); db.session.commit() on a
\* table with UniqueConstraint('user_id', 'course_id')
insert_enrollment(rows, u, c) ==
    IF EnrollRows(rows, u, c) # {}
    THEN [raised |-> "IntegrityError", rows |-> rows]
    ELSE [raised |-> "",
          rows |-> Append(rows, [user_id |-> u, course_id |-> c, is_active |-> FALSE,
                                 status |-> "active"])]

EnrollReply(code) ==
    [op |-> "enroll", code |-> code, attempt |-> 0, completed |-> FALSE, value |-> None]

EnrollCheck(p, u, c, route) ==
    LET existing == EnrollRows(enrollments, u, c)
        first == CHOOSE i \in existing : \A j \in existing : i <= j
        goto(pc, row) == [pending EXCEPT ![p] =
                             [pc |-> pc, user |-> u, quiz |-> 0, permitted |-> FALSE,
                              arg |-> Some([course |-> c, route |-> route, row |-> row])]]
    IN  /\ pending[p].pc = "idle"
        /\ UNCHANGED <<courses, enrollments, attempts, questions, issued, now>>
        /\ IF c \notin courses
           THEN /\ resp' = EnrollReply(IF route = "main" THEN "NotFound" ELSE "500")
                /\ UNCHANGED pending
           ELSE IF ~course_is_published(c)
           THEN /\ resp' = EnrollReply("400")
                /\ UNCHANGED pending
           ELSE IF existing # {}
           THEN IF enrollments[first].is_active
                THEN /\ resp' = EnrollReply(IF route = "main" THEN "ok" ELSE "400")
                     /\ UNCHANGED pending
                ELSE /\ pending' = goto("enroll_reactivate", first)
                     /\ UNCHANGED resp
           ELSE /\ pending' = goto("enroll_insert", 0)
                /\ UNCHANGED resp

EnrollCommit(p) ==
    LET call == pending[p].arg[1]
        r == insert_enrollment(enrollments, pending[p].user, call.course)
    IN  /\ pending[p].pc \in {"enroll_insert", "enroll_reactivate"}
        /\ pending' = [pending EXCEPT ![p] = Idle]
        /\ UNCHANGED <<courses, attempts, questions, issued, now>>
        /\ IF pending[p].pc = "enroll_reactivate"
           THEN /\ enrollments' = [enrollments EXCEPT ![call.row].is_active = TRUE,
                                                      ![call.row].status = "active"]
                /\ resp' = EnrollReply("ok")
           ELSE /\ enrollments' = r.rows
                /\ resp' = EnrollReply(IF r.raised = "" THEN "ok"
                                       ELSE IF call.route = "main" THEN r.raised
                                       ELSE "500")

EnrollInit ==
    /\ courses = Courses
    /\ enrollments = <<>>
    /\ attempts = <<>>
    /\ questions = [i \in {} |-> Question(1, "multiple_choice", <<"a">>, 1)]
    /\ pending = [p \in Procs |-> Idle]
    /\ issued = <<>>
    /\ resp = NoResp
    /\ now = 1

EnrollNext ==
    \/ \E p \in Procs, u \in EnrollUsers, c \in Courses, route \in Routes :
           EnrollCheck(p, u, c, route)
    \/ \E p \in Procs : EnrollCommit(p)

EnrollSpec == EnrollInit /\ [][EnrollNext]_vars

-----------------------------------------------------------------------------
(* Claims *)

RowsOf(u, quiz) ==
    {a \in 1..Len(attempts) : attempts[a].user_id = u /\ attempts[a].quiz_id = quiz}

\* C1: in every reachable state the number of Attempt rows of a (user, quiz)
\* pair is at most quiz.maxAttempts, also when start calls run concurrently.
AttemptsWithinLimit ==
    \A u \in Users, quiz \in Quizzes :
        Cardinality(RowsOf(u, quiz)) <= quiz_max_attemtps(quiz)

\* C2: canAttempt(quiz, user) is true exactly when the number of Attempt rows of
\* that user on that quiz, in_progress and completed alike, is strictly less
\* than quiz.maxAttempts; rows of other users or quizzes are not counted.
CanAttemptIffBelowLimit ==
    \A u \in Users, quiz \in Quizzes :
        can_user_attempt(attempts, quiz, u)
            <=> Cardinality(RowsOf(u, quiz)) < quiz_max_attemtps(quiz)

\* C2 witness: a user is refused on a quiz by an in_progress row alone while
\* another user, who has no row on that quiz, may still attempt it.
CanAttemptWitness ==
    \E u \in Users, v \in Users, quiz \in Quizzes :
        /\ u # v
        /\ ~can_user_attempt(attempts, quiz, u)
        /\ \A a \in RowsOf(u, quiz) : attempts[a].status = "in_progress"
        /\ RowsOf(v, quiz) = {}
        /\ can_user_attempt(attempts, quiz, v)

\* C3: every Attempt row was created while its quiz was published (a start on
\* an unpublished quiz creates no row).
AttemptsOnlyOnPublished ==
    \A a \in 1..Len(issued) : issued[a].published

\* C4: every Attempt row was created for a user who, when the start call was
\* made, was actively enrolled in the quiz's course, or its teacher, or admin.
AttemptsOnlyForPermitted ==
    \A a \in 1..Len(issued) : issued[a].permitted

\* C5: a second finalize of a completed attempt (calculate_score run again on
\* it) leaves total_points, earned_points, score, completed_at and every other
\* stored field as the first left them, whatever was edited in between.
FinalizeIdempotent ==
    [][\A a \in 1..Len(attempts) :
          (attempts[a].status = "completed" /\ CalculateScore(a))
              => attempts'[a] = attempts[a]]_vars

\* C6: every submit of answers on a completed attempt returns AlreadyCompleted.
SubmitOnCompletedRejected ==
    (resp.op = "submit" /\ resp.completed) => resp.code = "AlreadyCompleted"

\* C7: while an attempt is not completed its total_points, earned_points and
\* score are absent; once it is completed its score is present (possibly 0).
ScoreFieldsFollowStatus ==
    \A a \in 1..Len(attempts) :
        /\ attempts[a].status # "completed"
               => /\ attempts[a].total_points = None
                  /\ attempts[a].earned_points = None
                  /\ attempts[a].score = None
        /\ attempts[a].status = "completed" => attempts[a].score # None

\* C7 witness: calculate_score has just been called on an in_progress attempt,
\* and another attempt is completed with the score 0.
ScoreFieldsWitness ==
    /\ resp.op = "calculate_score" /\ ~resp.completed
    /\ resp.attempt \in 1..Len(attempts)
    /\ attempts[resp.attempt].status = "in_progress"
    /\ \E b \in 1..Len(attempts) :
          /\ attempts[b].status = "completed"
          /\ attempts[b].score # None
          /\ attempts[b].score[1].num = 0

\* What the specification's Scoring Engine yields for the stored answers of an
\* attempt and the current questions of its quiz
StatedAnswerMap(attempt) ==
    IF attempt.answers.kind = "json" THEN attempt.answers.dict ELSE {}

StatedCorrect(question, answer) ==
    /\ question.question_type \in {"multiple_choice", "true_false", "short_answer"}
    /\ lower(strip(answer)) = lower(strip(question.correct_answer))

StatedEarnedIds(attempt) ==
    {i \in quiz_questions(questions, attempt.quiz_id) :
        \E e \in StatedAnswerMap(attempt) :
            e[1] = str_id(i) /\ StatedCorrect(questions[i], e[2])}

\* calculate_score has just been called on attempt a, which was marked
\* completed and whose stored answers are an answer map (possibly none)
ScoredCall(a) ==
    /\ resp.op = "calculate_score" /\ resp.completed /\ resp.attempt = a
    /\ attempts[a].answers.kind \in {"null", "empty", "json"}

\* C8: scoring yields total = the sum of points over all questions of the set
\* and earned = the sum of points over the questions whose id has an entry in
\* the answer map for which correctnessOf is true.
ScoringSumsAsStated ==
    \A a \in 1..Len(attempts) :
        ScoredCall(a) =>
            /\ attempts[a].total_points
                   = Some(SumPoints(questions, quiz_questions(questions, attempts[a].quiz_id)))
            /\ attempts[a].earned_points
                   = Some(SumPoints(questions, StatedEarnedIds(attempts[a])))

\* C9: for every scored attempt, percentage = earned / total * 100 when
\* total > 0 and 0 otherwise, the percentage is within [0, 100], and
\* 0 <= earned <= total.
PercentageInRange ==
    \A a \in 1..Len(attempts) :
        attempts[a].score # None =>
            LET earned == attempts[a].earned_points[1]
                total == attempts[a].total_points[1]
                pct == attempts[a].score[1]
            IN  /\ pct = Percentage(earned, total)
                /\ 0 <= pct.num /\ pct.num <= 100 * pct.den
                /\ 0 <= earned /\ earned <= total

\* C10: finalizing an attempt of a quiz with zero questions, with any answer
\* map, does not fault and yields earned = 0, total = 0, percentage = 0.
ZeroQuestionsScoreZero ==
    \A a \in 1..Len(attempts) :
        (ScoredCall(a) /\ quiz_questions(questions, attempts[a].quiz_id) = {}) =>
            /\ resp.code = "ok"
            /\ attempts[a].total_points = Some(0)
            /\ attempts[a].earned_points = Some(0)
            /\ attempts[a].score # None
            /\ attempts[a].score[1].num = 0

\* the scenario of questions worth 1 and 3 points where only the 3-point
\* question is answered, correctly
PassedScenario(a) ==
    /\ quiz_questions(questions, attempts[a].quiz_id) = {1, 2}
    /\ questions[1].points = 1 /\ questions[2].points = 3
    /\ questions[2].question_type = "multiple_choice"
    /\ attempts[a].answers = JsonText({<<"2", <<"a">>>>})

\* C11: the result of finalizing carries passed, which is true exactly when
\* percentage >= quiz.passingScore; with questions worth 1 and 3 points and
\* passingScore 70, answering only the 3-point question correctly gives
\* earned = 3, total = 4, percentage = 75, passed = true.
PassedAsStated ==
    \A a \in 1..Len(attempts) :
        ScoredCall(a) =>
            /\ resp.code = "ok"
            /\ attempts[a].score # None
            /\ resp.value # None
            /\ resp.value[1] <=> (attempts[a].score[1].num
                                     >= quiz_passing_score(attempts[a].quiz_id)
                                            * attempts[a].score[1].den)
            /\ PassedScenario(a) =>
                   /\ attempts[a].earned_points = Some(3)
                   /\ attempts[a].total_points = Some(4)
                   /\ attempts[a].score = Some(Percentage(3, 4))
                   /\ resp.value = Some(TRUE)

\* The scoring inputs of an attempt: its stored answers and the question rows
\* of its quiz
ScoringInputs(a) ==
    [answers |-> attempts[a].answers,
     rows |-> [i \in quiz_questions(questions, attempts[a].quiz_id) |->
                  [question_type |-> questions[i].question_type,
                   correct_answer |-> questions[i].correct_answer,
                   points |-> questions[i].points]]]

\* What a scoring run yields: the exception, or total, earned and percentage
ScoringOutcome(r) ==
    IF r.raised # ""
    THEN [raised |-> r.raised, total |-> None, earned |-> None, score |-> None]
    ELSE [raised |-> "", total |-> r.attempt.total_points,
          earned |-> r.attempt.earned_points, score |-> r.attempt.score]

UnknownEntries(a) ==
    {e \in StatedAnswerMap(attempts[a]) :
        \A i \in quiz_questions(questions, attempts[a].quiz_id) : e[1] # str_id(i)}

\* C13: an answer-map entry whose question id is not of the quiz is ignored:
\* scoring the map is not an error and yields the total and the earned points
\* of the map without that entry.
UnknownIdsIgnored ==
    \A a \in 1..Len(attempts) :
        (ScoredCall(a) /\ UnknownEntries(a) # {}) =>
            LET known == [attempts[a] EXCEPT
                             !.answers = JsonText(attempts[a].answers.dict
                                                      \ UnknownEntries(a))]
            IN  /\ resp.code = "ok"
                /\ attempts[a].total_points
                       = Some(SumPoints(questions,
                                        quiz_questions(questions, attempts[a].quiz_id)))
                /\ attempts[a].earned_points
                       = Some(SumPoints(questions, StatedEarnedIds(known)))

\* the completed attempts of a user on a quiz
CompletedOf(u, quiz) == {a \in RowsOf(u, quiz) : attempts[a].status = "completed"}

\* C14: bestScore(quiz, user) is the maximum score over the user's completed
\* attempts on the quiz and absent when there is none; in_progress attempts and
\* attempts of other users or on other quizzes do not contribute.
BestScoreAsStated ==
    resp.op = "best_score" =>
        LET call == resp.value[1]
            done == CompletedOf(call.user, call.quiz)
        IN  IF done = {}
            THEN call.best = None
            ELSE /\ call.best # None
                 /\ \E a \in done : attempts[a].score = call.best
                 /\ \A a \in done : score_le(attempts[a].score[1], call.best[1])

\* C14 witness: the best score has been returned for a user with two completed
\* attempts of different scores on the quiz, while another user holds a higher
\* score on that quiz.
BestScoreWitness ==
    /\ resp.op = "best_score"
    /\ \E a \in 1..Len(attempts), b \in 1..Len(attempts), c \in 1..Len(attempts) :
          /\ {a, b} \subseteq CompletedOf(resp.value[1].user, resp.value[1].quiz)
          /\ ~score_le(attempts[a].score[1], attempts[b].score[1])
          /\ resp.value[1].best = attempts[a].score
          /\ attempts[c].quiz_id = resp.value[1].quiz
          /\ attempts[c].user_id # resp.value[1].user
          /\ attempts[c].status = "completed"
          /\ ~score_le(attempts[c].score[1], attempts[a].score[1])

\* seq holds each element of set exactly once
IsPermutationOf(seq, set) ==
    /\ Len(seq) = Cardinality(set)
    /\ \A x \in set : \E k \in 1..Len(seq) : seq[k] = x

\* C15: the take_quiz call that issues an attempt fixes and returns its
\* question order, each question of the quiz exactly once (the position-index
\* order when the randomize flag is off).
QuestionOrderIssued ==
    (resp.op = "take_quiz" /\ resp.attempt # 0) =>
        /\ resp.code = "ok"
        /\ resp.value # None
        /\ IsPermutationOf(resp.value[1],
                           quiz_questions(questions, attempts[resp.attempt].quiz_id))

\* the answer map after map m is merged into map old: m's value where m has an
\* entry, old's value otherwise
MergedMap(old, m) == {e \in old : \A f \in m : f[1] # e[1]} \cup m

\* C16: a submitAnswers call on an in_progress attempt merges the submitted
\* map into the stored one: afterwards every id holds the submitted value when
\* the call has an entry for it and its earlier value otherwise.
SubmitMerges ==
    [][\A u \in Callers, a \in 1..Len(attempts), m \in AnswerMaps :
          (attempts[a].status = "in_progress" /\ SubmitAnswers(u, a, m))
              => StatedAnswerMap(attempts'[a])
                     = MergedMap(StatedAnswerMap(attempts[a]), m)]_vars

\* C17: a submit on an attempt that belongs to another user fails with
\* NotOwner and changes no attempt.
ForeignSubmitRejected ==
    [][\A u \in Callers, a \in 1..Len(attempts), m \in AnswerMaps :
          (u # attempts[a].user_id /\ SubmitAnswers(u, a, m))
              => (resp'.code = "NotOwner" /\ attempts' = attempts)]_vars

\* the question tables that differ from qs in correct_answer values only
CorrectChoices == {<<"a">>, <<"b">>}

AnswerVariants(qs) ==
    {[i \in DOMAIN qs |-> [qs[i] EXCEPT !.correct_answer = f[i]]] :
        f \in [DOMAIN qs -> CorrectChoices]}

StatedTrim(s) ==
    LET inked == {k \in 1..Len(s) : s[k] # " "}
    IN  IF inked = {} THEN <<>>
        ELSE SubSeq(s, CHOOSE k \in inked : \A j \in inked : k <= j,
                       CHOOSE k \in inked : \A j \in inked : j <= k)

StatedLower(s) ==
    [k \in 1..Len(s) |-> IF s[k] = "A" THEN "a" ELSE IF s[k] = "B" THEN "b" ELSE s[k]]

StatedNormal(s) == StatedLower(StatedTrim(s))

RecognizedTypes == {"multiple_choice", "true_false", "short_answer"}

\* C19: for a question of each of the three types, correctnessOf is true
\* exactly when the canonical and the submitted answer are equal after
\* trimming surrounding whitespace and lowercasing, the same for each type.
CorrectnessAsStated ==
    \A p \in Procs :
        (pending[p].pc = "checked" /\ questions[1].question_type \in RecognizedTypes) =>
            LET answer == pending[p].arg[1]
                stated == StatedNormal(answer) = StatedNormal(questions[1].correct_answer)
            IN  /\ resp.value = Some(stated)
                /\ \A t \in RecognizedTypes :
                       check_answer([questions[1] EXCEPT !.question_type = t], answer)
                           = stated

\* C19 witness: a short answer that differs from the canonical answer, with a
\* leading space and an upper-case letter, has been found correct.
CorrectnessWitness ==
    \E p \in Procs :
        /\ pending[p].pc = "checked"
        /\ questions[1].question_type = "short_answer"
        /\ resp.value = Some(TRUE)
        /\ pending[p].arg[1] # questions[1].correct_answer
        /\ \E k \in 1..Len(pending[p].arg[1]) : pending[p].arg[1][k] = "A"
        /\ pending[p].arg[1][1] = " "

\* the questions of an attempt's quiz whose type is none of the three
UnrecognizedOf(a) ==
    {i \in quiz_questions(questions, attempts[a].quiz_id) :
        questions[i].question_type \notin RecognizedTypes}

\* C20: a question of an unrecognized type is never found correct, whatever
\* answer is stored for it, the canonical one included; scoring an attempt of
\* a quiz with such a question does not raise, counts its points in total and
\* does not count them in earned.
UnrecognizedTypeNeverEarns ==
    \A a \in 1..Len(attempts) :
        (ScoredCall(a) /\ UnrecognizedOf(a) # {}) =>
            /\ \A i \in UnrecognizedOf(a), e \in StatedAnswerMap(attempts[a]) :
                   ~check_answer(questions[i], e[2])
            /\ resp.code = "ok"
            /\ attempts[a].total_points
                   = Some(SumPoints(questions,
                                    quiz_questions(questions, attempts[a].quiz_id)))
            /\ attempts[a].earned_points
                   = Some(SumPoints(questions,
                                    StatedEarnedIds(attempts[a]) \ UnrecognizedOf(a)))

\* a JSON value that is a list of strings
IsStringList(v) ==
    /\ v.t = "list"
    /\ \A k \in 1..Len(v.items) : v.items[k] \in {"\"a\"", "\"b\""}

\* C21: optionsOf returns a sequence and raises nothing for every stored
\* options value, and the empty sequence whenever the stored value is absent,
\* empty, unparsable, or parsable but not a list of strings.
OptionsFailSoft ==
    resp.op = "get_options_list" =>
        /\ resp.code = "ok"
        /\ resp.value[1].t = "list"
        /\ (\/ questions[1].options.kind # "json"
            \/ ~IsStringList(questions[1].options.json))
               => resp.value[1] = JsonList(<<>>)

\* the result stored on an attempt
StoredResult(a) ==
    [total |-> attempts[a].total_points, earned |-> attempts[a].earned_points,
     score |-> attempts[a].score, completed_at |-> attempts[a].completed_at]

\* C22: of two finalize calls on one attempt, the one that finds the attempt
\* completed does not error and returns the result the other has stored.
FinalizeLoserReturnsResult ==
    \A a \in 1..Len(attempts) :
        (resp.op = "calculate_score" /\ resp.completed /\ resp.attempt = a) =>
            /\ resp.code = "ok"
            /\ resp.value = Some(StoredResult(a))

\* C23: the total_points, earned_points and score stored on a completed
\* attempt stay as they are under every later step (question edits, reads,
\* calculate_score run again, best-score queries) while the attempt exists.
StoredResultFrozen ==
    [][\A a \in 1..Len(attempts) :
          (/\ a <= Len(attempts')
           /\ attempts[a].status = "completed"
           /\ attempts[a].score # None)
              => /\ attempts'[a].total_points = attempts[a].total_points
                 /\ attempts'[a].earned_points = attempts[a].earned_points
                 /\ attempts'[a].score = attempts[a].score]_vars

\* C24: an attempt's status is in_progress or completed; a new attempt is
\* in_progress with no answers; the only change of status is from in_progress
\* to completed, made by finalize; a completed attempt stays completed.
StatusLifecycle ==
    /\ [](\A a \in 1..Len(attempts) : attempts[a].status \in {"in_progress", "completed"})
    /\ [][/\ \A a \in (Len(attempts) + 1)..Len(attempts') :
                /\ attempts'[a].status = "in_progress"
                /\ get_answers_dict(attempts'[a]) = [raised |-> "", value |-> {}]
          /\ \A a \in 1..Len(attempts) :
                (a <= Len(attempts') /\ attempts'[a].status # attempts[a].status)
                    => /\ attempts[a].status = "in_progress"
                       /\ attempts'[a].status = "completed"
                       /\ FinalizeAttempt(a)]_vars

StatusLifecycleWitness ==
    /\ Len(attempts) = 2
    /\ attempts[1].status = "completed"
    /\ attempts[2].status = "in_progress"
    /\ resp.op = "take_quiz"
    /\ resp.attempt = 2

\* C25: calculate_score on a completed attempt whose answers text is absent
\* or is not parsable does not raise and stores earned = 0 and total = the
\* sum of points over the quiz's questions.
UnparsableAnswersScoreZero ==
    \A a \in 1..Len(attempts) :
        (/\ resp.op = "calculate_score" /\ resp.completed /\ resp.attempt = a
         /\ attempts[a].answers.kind \in {"null", "empty", "bad"})
            => /\ resp.code = "ok"
               /\ attempts[a].earned_points = Some(0)
               /\ attempts[a].total_points
                      = Some(SumPoints(questions, quiz_questions(questions, attempts[a].quiz_id)))

\* C26: no step removes an attempt row, so the number of attempts a user has
\* on a quiz never decreases.
AttemptsNeverDeleted ==
    [][/\ Len(attempts') >= Len(attempts)
       /\ \A u \in Users, quiz \in Quizzes :
              count_rows(attempts', u, quiz) >= count_rows(attempts, u, quiz)]_vars

\* an operation on attempt a: a submit to it, its finalize, or its rescoring
OperationOn(a) ==
    \/ \E u \in Callers, m \in AnswerMaps : SubmitAnswers(u, a, m)
    \/ FinalizeAttempt(a)
    \/ CalculateScore(a)

\* C27: a step that starts, submits to, finalizes or rescores attempt a
\* changes no field of any other attempt b: whenever a step changes or
\* removes attempt b, it is not the start of an attempt and not an operation
\* on an attempt other than b.
AttemptsIsolated ==
    [][\A b \in 1..Len(attempts) :
          (b > Len(attempts') \/ attempts'[b] # attempts[b])
              => /\ ~ \E p \in Procs : TakeQuizCreate(p)
                 /\ \A a \in 1..Len(attempts) : a # b => ~OperationOn(a)]_vars

AttemptsIsolatedWitness ==
    /\ Len(attempts) = 2
    /\ resp.op = "calculate_score" /\ resp.code = "ok" /\ resp.attempt = 1
    /\ attempts[2].quiz_id = attempts[1].quiz_id
    /\ attempts[2].status = "completed"
    /\ attempts[2].total_points # attempts[1].total_points

\* C28: after one enroll by a student who had no enrollment row on a
\* published course, is_enrolled_by_user and can_be_accessed_by_user hold for
\* that student, so a following take_quiz passes the access check.
EnrollGrantsAccess ==
    [][\A u \in Students, c \in Courses :
          (/\ EnrollCourse(u, c)
           /\ c \in courses /\ course_is_published(c)
           /\ \A i \in 1..Len(enrollments) :
                  ~(enrollments[i].user_id = u /\ enrollments[i].course_id = c))
              => /\ is_enrolled_by_user(enrollments', c, u)
                 /\ can_be_accessed_by_user(enrollments', c, u)]_vars

BestScoreNeverWorse ==
    [][(UNCHANGED courses /\ attempts' # attempts) =>
          \A u \in Users, quiz \in Quizzes :
              LET before == get_user_best_score(attempts, quiz, u)
                  after == get_user_best_score(attempts', quiz, u)
              IN  before # None => (after # None /\ score_le(before[1], after[1]))]_vars

\* a best score kept while the user has started a further attempt and the
\* first was rescored after a question edit
BestScoreNeverWorseWitness ==
    /\ Len(attempts) = 2
    /\ attempts[1].user_id = attempts[2].user_id
    /\ attempts[1].quiz_id = attempts[2].quiz_id
    /\ attempts[1].status = "completed"
    /\ attempts[2].status = "in_progress"
    /\ get_user_best_score(attempts, attempts[1].quiz_id, attempts[1].user_id) # None
    /\ resp.op = "calculate_score" /\ resp.code = "ok" /\ resp.attempt = 1

====
